---- MODULE Spec2Model ----
(***************************************************************************)
(* Model of the task manager core (finalproject/task_manager.py): the JSON *)
(* store (_load, _save, _next_id) and the operations built on it.          *)
(*                                                                         *)
(* Text values (title, description, due_date, summary, adapter replies)    *)
(* are sequences of one-character strings, so that parsing, stripping and  *)
(* splitting are computed as the code computes them.  Python's None is the *)
(* value None below, which no sequence of single characters equals.        *)
(***************************************************************************)
EXTENDS Integers, Sequences, FiniteSets, TLC

VARIABLES
    file,     \* content of the file at store_path
    last,     \* the most recent call: operation, arguments, outcome
    issued,   \* ids returned by add_task so far (history)
    procs,    \* the calls in progress when two processes share the store
    mem       \* a list of tasks in memory, for _save and _load on their own

vars == <<file, last, issued, procs, mem>>

-----------------------------------------------------------------------------
(* Bounds *)

MaxTasks == 2      \* add_task is not called on a store holding this many records
MaxId == 3         \* add_task is not called when the next id would exceed this

-----------------------------------------------------------------------------
(* Python values *)

None == <<"<None>">>

Truthy(s) == s # None /\ s # <<>>

\* the two values of a task's status
Pending == <<"p", "e", "n", "d", "i", "n", "g">>
Complete == <<"c", "o", "m", "p", "l", "e", "t", "e">>

-----------------------------------------------------------------------------
(* str methods used by the code *)

Whitespace == {" ", "\n", "\t"}

RECURSIVE lstrip(_)
lstrip(s) ==
    IF s # <<>> /\ Head(s) \in Whitespace THEN lstrip(Tail(s)) ELSE s

RECURSIVE rstrip(_)
rstrip(s) ==
    IF s # <<>> /\ s[Len(s)] \in Whitespace
    THEN rstrip(SubSeq(s, 1, Len(s) - 1))
    ELSE s

strip(s) == rstrip(lstrip(s))

startswith(s, p) == Len(p) <= Len(s) /\ SubSeq(s, 1, Len(p)) = p

\* s.split(sep) for a one-character separator: the pieces between separators
RECURSIVE splitFrom(_, _, _)
splitFrom(s, sep, cur) ==
    IF s = <<>> THEN <<cur>>
    ELSE IF Head(s) = sep THEN <<cur>> \o splitFrom(Tail(s), sep, <<>>)
    ELSE splitFrom(Tail(s), sep, Append(cur, Head(s)))

split(s, sep) == splitFrom(s, sep, <<>>)

\* s.split(sep, 1): at most one split
split1(s, sep) ==
    IF \E i \in 1..Len(s) : s[i] = sep
    THEN LET i == CHOOSE k \in 1..Len(s) :
                      s[k] = sep /\ \A j \in 1..(k - 1) : s[j] # sep
         IN  <<SubSeq(s, 1, i - 1), SubSeq(s, i + 1, Len(s))>>
    ELSE <<s>>

Digits == <<"0", "1", "2", "3", "4", "5", "6", "7", "8", "9">>

IsDigit(c) == \E d \in 1..10 : Digits[d] = c

DigitVal(c) == (CHOOSE d \in 1..10 : Digits[d] = c) - 1

AllDigits(s) == \A i \in 1..Len(s) : IsDigit(s[i])

RECURSIVE DecVal(_)
DecVal(s) ==
    IF s = <<>> THEN 0
    ELSE 10 * DecVal(SubSeq(s, 1, Len(s) - 1)) + DigitVal(s[Len(s)])

\* int(s): surrounding whitespace ignored, optional sign, decimal digits;
\* anything else is a ValueError
int(s) ==
    LET b == strip(s)
        signed == b # <<>> /\ Head(b) \in {"+", "-"}
        d == IF signed THEN Tail(b) ELSE b
    IN  IF d # <<>> /\ AllDigits(d)
        THEN [ok |-> TRUE,
              val |-> IF signed /\ Head(b) = "-" THEN 0 - DecVal(d) ELSE DecVal(d)]
        ELSE [ok |-> FALSE, val |-> 0]

-----------------------------------------------------------------------------
(* datetime.strptime(s, "%Y-%m-%d"): TRUE iff no ValueError is raised *)

IsLeap(y) == (y % 4 = 0 /\ y % 100 # 0) \/ y % 400 = 0

DaysInMonth(y, m) ==
    IF m = 2 THEN (IF IsLeap(y) THEN 29 ELSE 28)
    ELSE IF m \in {4, 6, 9, 11} THEN 30 ELSE 31

\* %m matches 1[0-2] | 0[1-9] | [1-9]
MonthTok(s) ==
    \/ Len(s) = 2 /\ s[1] = "1" /\ s[2] \in {"0", "1", "2"}
    \/ Len(s) = 2 /\ s[1] = "0" /\ IsDigit(s[2]) /\ s[2] # "0"
    \/ Len(s) = 1 /\ IsDigit(s[1]) /\ s[1] # "0"

\* %d matches 3[01] | [12]\d | 0[1-9] | [1-9] | " "[1-9]
DayTok(s) ==
    \/ Len(s) = 2 /\ s[1] = "3" /\ s[2] \in {"0", "1"}
    \/ Len(s) = 2 /\ s[1] \in {"1", "2"} /\ IsDigit(s[2])
    \/ Len(s) = 2 /\ s[1] \in {"0", " "} /\ IsDigit(s[2]) /\ s[2] # "0"
    \/ Len(s) = 1 /\ IsDigit(s[1]) /\ s[1] # "0"

strptime(s) ==
    \E i \in 7..(Len(s) - 1) :
        LET Y == SubSeq(s, 1, 4)
            M == SubSeq(s, 6, i - 1)
            D == SubSeq(s, i + 1, Len(s))
        IN  /\ AllDigits(Y) /\ s[5] = "-" /\ s[i] = "-"
            /\ MonthTok(M) /\ DayTok(D)
            /\ LET y == DecVal(Y)
                   m == DecVal(M)
                   d == DecVal(lstrip(D))
               IN  y >= 1 /\ d <= DaysInMonth(y, m)

\* datetime.strptime(s, "%Y-%m-%d").date(), for s that strptime accepts:
\* year, month, day
date(s) ==
    LET i == CHOOSE k \in 7..(Len(s) - 1) :
                 s[k] = "-" /\ MonthTok(SubSeq(s, 6, k - 1))
    IN  <<DecVal(SubSeq(s, 1, 4)), DecVal(SubSeq(s, 6, i - 1)),
          DecVal(lstrip(SubSeq(s, i + 1, Len(s))))>>

\* a < b for two dates
DateLess(a, b) ==
    \/ a[1] < b[1]
    \/ a[1] = b[1] /\ a[2] < b[2]
    \/ a[1] = b[1] /\ a[2] = b[2] /\ a[3] < b[3]

-----------------------------------------------------------------------------
(* JSON text, as the document json.dump writes and json.load reads *)

JNull == [t |-> "null"]
JNum(n) == [t |-> "num", n |-> n]
JStr(s) == [t |-> "str", s |-> s]

\* keys of a task, in the order add_task builds the dict
Fields == <<"id", "title", "description", "created_at",
            "due_date", "priority", "status", "summary">>

\* json decoding of one value
Decode(j) ==
    IF j.t = "null" THEN None
    ELSE IF j.t = "num" THEN j.n
    ELSE j.s

IntFields == {"id", "priority"}

\* variant of the encoding: None written as the string str(None)
EncodeField_str(t, k) ==
    IF k \in IntFields THEN JNum(t[k])
    ELSE IF t[k] = None THEN JStr(<<"N", "o", "n", "e">>)
    ELSE JStr(t[k])

\* json encoding of one value: int -> number, None -> null, str -> string
EncodeField(t, k) ==
    IF k \in IntFields THEN JNum(t[k])
    ELSE IF t[k] = None THEN JNull
    ELSE JStr(t[k])

\* a dict becomes an object: its members in key order
DumpTask(t) == [i \in 1..Len(Fields) |->
                   [key |-> Fields[i], val |-> EncodeField(t, Fields[i])]]

\* an object becomes a dict: one entry per member key
LoadTask(o) ==
    [k \in {o[i].key : i \in 1..Len(o)} |->
        Decode(o[CHOOSE i \in 1..Len(o) : o[i].key = k].val)]

Dump(tasks) == [i \in 1..Len(tasks) |-> DumpTask(tasks[i])]

\* number of characters of the text json.dump(tasks, f, indent=2) writes
KeyLen == <<2, 5, 11, 10, 8, 8, 6, 7>>

RECURSIVE NumLen(_)
NumLen(n) == IF n < 0 THEN 1 + NumLen(0 - n)
             ELSE IF n < 10 THEN 1 ELSE 1 + NumLen(n \div 10)

RECURSIVE StrLen(_)
StrLen(s) ==
    IF s = <<>> THEN 0
    ELSE (IF Head(s) \in {"\"", "\\", "\n", "\t"} THEN 2 ELSE 1)
         + StrLen(Tail(s))

ValLen(j) ==
    IF j.t = "null" THEN 4
    ELSE IF j.t = "num" THEN NumLen(j.n)
    ELSE 2 + StrLen(j.s)

MemberLen(m) ==
    LET k == CHOOSE i \in 1..Len(Fields) : Fields[i] = m.key
    IN  4 + (KeyLen[k] + 2) + 2 + ValLen(m.val)

RECURSIVE MembersLen(_, _)
MembersLen(o, i) ==
    IF i > Len(o) THEN 0 ELSE MemberLen(o[i]) + MembersLen(o, i + 1)

ObjLen(o) == 4 + MembersLen(o, 1) + 2 * (Len(o) - 1) + 4

RECURSIVE ObjsLen(_, _)
ObjsLen(items, i) ==
    IF i > Len(items) THEN 0 ELSE ObjLen(items[i]) + ObjsLen(items, i + 1)

ArrLen(items) ==
    IF items = <<>> THEN 2
    ELSE 2 + ObjsLen(items, 1) + 2 * (Len(items) - 1) + 2

\* the file does not exist
Missing == [exists |-> FALSE, doc |-> "empty", items |-> <<>>, size |-> 0]

\* an existing file of size characters: empty, not JSON, a JSON object, or
\* a JSON array
Text(doc, items, size) ==
    [exists |-> TRUE, doc |-> doc, items |-> items, size |-> size]

(* _load: missing file, parse error or a non-list all give [] *)
_load(f) ==
    IF ~f.exists THEN <<>>
    ELSE IF f.doc = "array"
         THEN [i \in 1..Len(f.items) |-> LoadTask(f.items[i])]
         ELSE <<>>

\* open(store_path, "w"): the file exists and is empty
Truncated == Text("empty", <<>>, 0)

\* the text of items written from the start of a file that already holds
\* f.size characters (none, right after open): what lies beyond the new
\* text stays, and then the file is not JSON any more
Written(f, items) ==
    LET n == ArrLen(items)
    IN  IF n >= f.size THEN Text("array", items, n)
        ELSE Text("invalid", <<>>, f.size)

(* _save: open(..., "w") then json.dump.  io is what the file system does: *)
(*   ok          the whole text is written                                *)
(*   open_error  open raises, the file is untouched                       *)
(*   write_error the file was truncated, part of the text was flushed     *)
(*   close_error the file was truncated, nothing was flushed              *)
IoOutcomes == {"ok", "open_error", "write_error", "close_error"}

_save(f, tasks, io) ==
    IF io = "ok" THEN Written(Truncated, Dump(tasks))
    ELSE IF io = "open_error" THEN f
    ELSE IF io = "write_error" THEN Text("invalid", <<>>, 1)
    ELSE Truncated

\* max(S, default=0)
max(S) == IF S = {} THEN 0 ELSE CHOOSE y \in S : \A z \in S : z <= y

\* variants of _next_id: counting the tasks; forgetting the + 1; default=1
_next_id_count(tasks) == Len(tasks) + 1

_next_id_same(tasks) == max({tasks[i].id : i \in 1..Len(tasks)})

_next_id_default1(tasks) ==
    (IF tasks = <<>> THEN 1 ELSE max({tasks[i].id : i \in 1..Len(tasks)})) + 1

\* variant of _next_id: above every id handed out so far
_next_id_fresh(tasks) ==
    max({tasks[i].id : i \in 1..Len(tasks)} \cup issued) + 1

_next_id(tasks) == max({tasks[i].id : i \in 1..Len(tasks)}) + 1

-----------------------------------------------------------------------------
(* The AI adapter as the code sees it: unavailable (no package or no key), *)
(* a call that raises, or a call that answers with some text.              *)

Unavailable == [mode |-> "unavailable", content |-> <<>>]
Failing == [mode |-> "error", content |-> <<"R", "u", "n", "t", "i", "m", "e", "E", "r", "r", "o", "r">>]
Answer(text) == [mode |-> "ok", content |-> text]

SummaryUnavailable ==
    <<"(", "S", "u", "m", "m", "a", "r", "y", " ", "u", "n", "a", "v", "a",
      "i", "l", "a", "b", "l", "e", ":", " ", "O", "p", "e", "n", "A", "I",
      " ", "A", "P", "I", " ", "k", "e", "y", " ", "n", "o", "t", " ", "s",
      "e", "t", ")">>

SummaryErrorPrefix ==
    <<"(", "S", "u", "m", "m", "a", "r", "y", " ", "e", "r", "r", "o", "r",
      ":", " ">>

\* variant of _generate_summary: the client is called without looking at
\* the package or the key
_generate_summary_nocheck(title, description, ai) ==
    IF ai.mode = "error" THEN SummaryErrorPrefix \o ai.content \o <<")">>
    ELSE strip(ai.content)

_generate_summary(title, description, ai) ==
    IF ai.mode = "unavailable" THEN SummaryUnavailable
    ELSE IF ai.mode = "ok" THEN strip(ai.content)
    ELSE SummaryErrorPrefix \o ai.content \o <<")">>

PriorityTag == <<"P", "r", "i", "o", "r", "i", "t", "y", ":">>

\* the loop over content.split("\n") in prioritize_task: the value of
\* priority after the lines, starting from cur (0 stands for None)
RECURSIVE ParsePriority(_, _)
ParsePriority(lines, cur) ==
    IF lines = <<>> THEN cur
    ELSE LET line == Head(lines)
             n == int(strip(split(line, ":")[2]))
             p == IF ~startswith(line, PriorityTag) THEN cur
                  ELSE IF ~n.ok THEN 3
                  ELSE IF n.val < 1 \/ n.val > 5 THEN 3
                  ELSE n.val
         IN  ParsePriority(Tail(lines), p)

-----------------------------------------------------------------------------
(* What each operation does with the list it loaded.  A plan says whether  *)
(* the operation goes on to call _save, with which list, what it returns   *)
(* when _save succeeds (or is not called), and whether the call to _save   *)
(* sits inside a try block that catches every exception.                   *)

Plan(save, tasks, ret, caught) ==
    [save |-> save, tasks |-> tasks, ret |-> ret, caught |-> caught]

\* index of the first task with the given id, 0 if there is none
Find(tasks, task_id) ==
    IF \E i \in 1..Len(tasks) : tasks[i].id = task_id
    THEN CHOOSE i \in 1..Len(tasks) :
             /\ tasks[i].id = task_id
             /\ \A j \in 1..(i - 1) : tasks[j].id # task_id
    ELSE 0

\* variant of add_task: the priority is stored as given
AddTask_asgiven(tasks, title, description, due_date, priority, summarize, now, ai) ==
    LET due == IF Truthy(due_date) /\ ~strptime(due_date) THEN None
               ELSE due_date
        task == [id |-> _next_id(tasks),
                 title |-> title,
                 description |-> description,
                 created_at |-> now,
                 due_date |-> due,
                 priority |-> priority,
                 status |-> Pending,
                 summary |-> IF summarize
                             THEN _generate_summary(title, description, ai)
                             ELSE <<>>]
    IN  Plan(TRUE, Append(tasks, task), task, FALSE)

\* variant of add_task: the new task is put in front (insert(0, task))
AddTask_front(tasks, title, description, due_date, priority, summarize, now, ai) ==
    LET prio == IF priority < 1 \/ priority > 5 THEN 3 ELSE priority
        due == IF Truthy(due_date) /\ ~strptime(due_date) THEN None
               ELSE due_date
        task == [id |-> _next_id(tasks),
                 title |-> title,
                 description |-> description,
                 created_at |-> now,
                 due_date |-> due,
                 priority |-> prio,
                 status |-> Pending,
                 summary |-> IF summarize
                             THEN _generate_summary(title, description, ai)
                             ELSE <<>>]
    IN  Plan(TRUE, <<task>> \o tasks, task, FALSE)

AddTask(tasks, title, description, due_date, priority, summarize, now, ai) ==
    LET prio == IF priority < 1 \/ priority > 5 THEN 3 ELSE priority
        due == IF Truthy(due_date) /\ ~strptime(due_date) THEN None
               ELSE due_date
        task == [id |-> _next_id(tasks),
                 title |-> title,
                 description |-> description,
                 created_at |-> now,
                 due_date |-> due,
                 priority |-> prio,
                 status |-> Pending,
                 summary |-> IF summarize
                             THEN _generate_summary(title, description, ai)
                             ELSE <<>>]
    IN  Plan(TRUE, Append(tasks, task), task, FALSE)

\* variants of complete_task: flipping the status; refusing a task that is
\* already complete
CompleteTask_toggle(tasks, task_id) ==
    LET i == Find(tasks, task_id)
    IN  IF i # 0
        THEN Plan(TRUE,
                  [tasks EXCEPT ![i].status =
                      IF @ = Complete THEN Pending ELSE Complete],
                  TRUE, FALSE)
        ELSE Plan(FALSE, tasks, FALSE, FALSE)

CompleteTask_once(tasks, task_id) ==
    LET i == Find(tasks, task_id)
    IN  IF i # 0 /\ tasks[i].status # Complete
        THEN Plan(TRUE, [tasks EXCEPT ![i].status = Complete], TRUE, FALSE)
        ELSE Plan(FALSE, tasks, FALSE, FALSE)

\* variant of complete_task: the completed task is moved to the end
CompleteTask_toend(tasks, task_id) ==
    LET i == Find(tasks, task_id)
    IN  IF i # 0
        THEN Plan(TRUE,
                  Append(SelectSeq(tasks, LAMBDA t : t.id # task_id),
                         [tasks[i] EXCEPT !.status = Complete]),
                  TRUE, FALSE)
        ELSE Plan(FALSE, tasks, FALSE, FALSE)

CompleteTask(tasks, task_id) ==
    LET i == Find(tasks, task_id)
    IN  IF i # 0
        THEN Plan(TRUE, [tasks EXCEPT ![i].status = Complete], TRUE, FALSE)
        ELSE Plan(FALSE, tasks, FALSE, FALSE)

\* variant of delete_task: saving and reporting success in every case
DeleteTask_always(tasks, task_id) ==
    Plan(TRUE, SelectSeq(tasks, LAMBDA t : t.id # task_id), TRUE, FALSE)

\* variant of delete_task: "<=" in place of "!=" in the filter
DeleteTask_upto(tasks, task_id) ==
    LET new_tasks == SelectSeq(tasks, LAMBDA t : t.id > task_id)
    IN  IF Len(new_tasks) # Len(tasks)
        THEN Plan(TRUE, new_tasks, TRUE, FALSE)
        ELSE Plan(FALSE, tasks, FALSE, FALSE)

DeleteTask(tasks, task_id) ==
    LET new_tasks == SelectSeq(tasks, LAMBDA t : t.id # task_id)
    IN  IF Len(new_tasks) # Len(tasks)
        THEN Plan(TRUE, new_tasks, TRUE, FALSE)
        ELSE Plan(FALSE, tasks, FALSE, FALSE)

\* variant of set_priority: the lower limit off by one
SetPriority_from0(tasks, task_id, priority) ==
    LET i == Find(tasks, task_id)
    IN  IF priority < 0 \/ priority > 5 THEN Plan(FALSE, tasks, FALSE, FALSE)
        ELSE IF i # 0
        THEN Plan(TRUE, [tasks EXCEPT ![i].priority = priority], TRUE, FALSE)
        ELSE Plan(FALSE, tasks, FALSE, FALSE)

\* variant of set_priority: the task is moved to the front of the list
SetPriority_tofront(tasks, task_id, priority) ==
    LET i == Find(tasks, task_id)
    IN  IF priority < 1 \/ priority > 5 THEN Plan(FALSE, tasks, FALSE, FALSE)
        ELSE IF i # 0
        THEN Plan(TRUE,
                  <<[tasks[i] EXCEPT !.priority = priority]>> \o
                      SelectSeq(tasks, LAMBDA t : t.id # task_id),
                  TRUE, FALSE)
        ELSE Plan(FALSE, tasks, FALSE, FALSE)

SetPriority(tasks, task_id, priority) ==
    LET i == Find(tasks, task_id)
    IN  IF priority < 1 \/ priority > 5 THEN Plan(FALSE, tasks, FALSE, FALSE)
        ELSE IF i # 0
        THEN Plan(TRUE, [tasks EXCEPT ![i].priority = priority], TRUE, FALSE)
        ELSE Plan(FALSE, tasks, FALSE, FALSE)

\* variant of prioritize_task: the except clause stores its message in the
\* description of the task
PrioritizeTask_note(tasks, task_id, ai) ==
    LET i == Find(tasks, task_id)
        parsed == ParsePriority(split(strip(ai.content), "\n"), 0)
        priority == IF parsed = 0 THEN 3 ELSE parsed
        note == <<"(", "P", "r", "i", "o", "r", "i", "t", "i", "z", "a", "t", "i", "o", "n", " ", "e", "r", "r", "o", "r", ":", " ">> \o ai.content \o <<")">>
    IN  IF ai.mode = "unavailable" THEN Plan(FALSE, tasks, None, FALSE)
        ELSE IF i = 0 THEN Plan(FALSE, tasks, None, FALSE)
        ELSE IF ai.mode = "error"
        THEN Plan(TRUE, [tasks EXCEPT ![i].description = note], None, TRUE)
        ELSE Plan(TRUE, [tasks EXCEPT ![i].priority = priority], priority, TRUE)

\* variant of prioritize_task: the number of the last priority line is
\* stored as it is, in range or not
PrioritizeTask_unclamped(tasks, task_id, ai) ==
    LET i == Find(tasks, task_id)
        lines == SelectSeq(split(strip(ai.content), "\n"),
                           LAMBDA l : startswith(l, PriorityTag))
        n == int(strip(split(lines[Len(lines)], ":")[2]))
        priority == IF lines = <<>> THEN 3
                    ELSE IF ~n.ok THEN 3
                    ELSE n.val
    IN  IF ai.mode = "unavailable" THEN Plan(FALSE, tasks, None, FALSE)
        ELSE IF i = 0 THEN Plan(FALSE, tasks, None, FALSE)
        ELSE IF ai.mode = "error" THEN Plan(FALSE, tasks, None, FALSE)
        ELSE Plan(TRUE, [tasks EXCEPT ![i].priority = priority], priority, TRUE)

\* the try block of prioritize_task covers the adapter call, the parsing
\* and _save: whatever is raised there is caught and None is returned
PrioritizeTask(tasks, task_id, ai) ==
    LET i == Find(tasks, task_id)
        parsed == ParsePriority(split(strip(ai.content), "\n"), 0)
        priority == IF parsed = 0 THEN 3 ELSE parsed
    IN  IF ai.mode = "unavailable" THEN Plan(FALSE, tasks, None, FALSE)
        ELSE IF i = 0 THEN Plan(FALSE, tasks, None, FALSE)
        ELSE IF ai.mode = "error" THEN Plan(FALSE, tasks, None, FALSE)
        ELSE Plan(TRUE, [tasks EXCEPT ![i].priority = priority], priority, TRUE)

\* variant of edit_task: a due date that is not a date clears the field
EditTask_clear(tasks, task_id, title, description, due_date) ==
    LET i == Find(tasks, task_id)
        t0 == tasks[i]
        t1 == IF title # None THEN [t0 EXCEPT !.title = title] ELSE t0
        t2 == IF description # None
              THEN [t1 EXCEPT !.description = description] ELSE t1
        t3 == IF due_date = None THEN t2
              ELSE IF due_date = <<>> THEN [t2 EXCEPT !.due_date = None]
              ELSE IF strptime(due_date) THEN [t2 EXCEPT !.due_date = due_date]
              ELSE [t2 EXCEPT !.due_date = None]
    IN  IF i # 0
        THEN Plan(TRUE, [tasks EXCEPT ![i] = t3], TRUE, FALSE)
        ELSE Plan(FALSE, tasks, FALSE, FALSE)

\* variant of edit_task: a due date that is not given clears the field too
EditTask_dropdue(tasks, task_id, title, description, due_date) ==
    LET i == Find(tasks, task_id)
        t0 == tasks[i]
        t1 == IF title # None THEN [t0 EXCEPT !.title = title] ELSE t0
        t2 == IF description # None
              THEN [t1 EXCEPT !.description = description] ELSE t1
        t3 == IF due_date = None \/ due_date = <<>>
              THEN [t2 EXCEPT !.due_date = None]
              ELSE IF strptime(due_date) THEN [t2 EXCEPT !.due_date = due_date]
              ELSE t2
    IN  IF i # 0
        THEN Plan(TRUE, [tasks EXCEPT ![i] = t3], TRUE, FALSE)
        ELSE Plan(FALSE, tasks, FALSE, FALSE)

\* variant of edit_task: the edited task is taken out of the list and put
\* back at the end as a new one
EditTask_renumber(tasks, task_id, title, description, due_date) ==
    LET i == Find(tasks, task_id)
        t0 == tasks[i]
        t1 == IF title # None THEN [t0 EXCEPT !.title = title] ELSE t0
        t2 == IF description # None
              THEN [t1 EXCEPT !.description = description] ELSE t1
        t3 == IF due_date = None THEN t2
              ELSE IF due_date = <<>> THEN [t2 EXCEPT !.due_date = None]
              ELSE IF strptime(due_date) THEN [t2 EXCEPT !.due_date = due_date]
              ELSE t2
    IN  IF i # 0
        THEN Plan(TRUE,
                  Append(SelectSeq(tasks, LAMBDA t : t.id # task_id),
                         [t3 EXCEPT !.id = _next_id(tasks)]),
                  TRUE, FALSE)
        ELSE Plan(FALSE, tasks, FALSE, FALSE)

EditTask(tasks, task_id, title, description, due_date) ==
    LET i == Find(tasks, task_id)
        t0 == tasks[i]
        t1 == IF title # None THEN [t0 EXCEPT !.title = title] ELSE t0
        t2 == IF description # None
              THEN [t1 EXCEPT !.description = description] ELSE t1
        t3 == IF due_date = None THEN t2
              ELSE IF due_date = <<>> THEN [t2 EXCEPT !.due_date = None]
              ELSE IF strptime(due_date) THEN [t2 EXCEPT !.due_date = due_date]
              ELSE t2
    IN  IF i # 0
        THEN Plan(TRUE, [tasks EXCEPT ![i] = t3], TRUE, FALSE)
        ELSE Plan(FALSE, tasks, FALSE, FALSE)

\* variant of clear_tasks: only the first task is removed
ClearTasks_first(tasks) ==
    LET count == Len(tasks)
    IN  IF count > 0 THEN Plan(TRUE, Tail(tasks), count, FALSE)
        ELSE Plan(FALSE, tasks, count, FALSE)

ClearTasks(tasks) ==
    LET count == Len(tasks)
    IN  IF count > 0 THEN Plan(TRUE, <<>>, count, FALSE)
        ELSE Plan(FALSE, tasks, count, FALSE)

-----------------------------------------------------------------------------
(* search_tasks *)

UpperCase == <<"A", "B", "C", "D", "E", "F", "G", "H", "I", "J", "K", "L", "M",
               "N", "O", "P", "Q", "R", "S", "T", "U", "V", "W", "X", "Y", "Z">>
LowerCase == <<"a", "b", "c", "d", "e", "f", "g", "h", "i", "j", "k", "l", "m",
               "n", "o", "p", "q", "r", "s", "t", "u", "v", "w", "x", "y", "z">>

\* s.lower(), for text in ASCII
lower(s) ==
    [i \in 1..Len(s) |->
        IF \E k \in 1..26 : UpperCase[k] = s[i]
        THEN LowerCase[CHOOSE k \in 1..26 : UpperCase[k] = s[i]]
        ELSE s[i]]

\* q in s
contains(s, q) ==
    \E i \in 1..(Len(s) - Len(q) + 1) : SubSeq(s, i, i + Len(q) - 1) = q

\* str(v) for a str or None
str(v) == IF v = None THEN <<"N", "o", "n", "e">> ELSE v

\* variants of search_tasks: "if" in place of "elif"; nothing for the
\* empty query
SearchTasks_if(tasks, query) ==
    LET q == lower(query)
        prefix(t) == startswith(lower(str(t.title)), q)
        other(t) == \/ contains(lower(str(t.title)), q)
                    \/ contains(lower(str(t.description)), q)
                    \/ contains(lower(str(t.summary)), q)
    IN  SelectSeq(tasks, prefix) \o SelectSeq(tasks, other)

SearchTasks_skipempty(tasks, query) ==
    LET q == lower(query)
        prefix(t) == q # <<>> /\ startswith(lower(str(t.title)), q)
        other(t) == /\ q # <<>>
                    /\ ~prefix(t)
                    /\ \/ contains(lower(str(t.title)), q)
                       \/ contains(lower(str(t.description)), q)
                       \/ contains(lower(str(t.summary)), q)
    IN  SelectSeq(tasks, prefix) \o SelectSeq(tasks, other)

SearchTasks(tasks, query) ==
    LET q == lower(query)
        prefix(t) == startswith(lower(str(t.title)), q)
        other(t) == /\ ~prefix(t)
                    /\ \/ contains(lower(str(t.title)), q)
                       \/ contains(lower(str(t.description)), q)
                       \/ contains(lower(str(t.summary)), q)
    IN  SelectSeq(tasks, prefix) \o SelectSeq(tasks, other)

-----------------------------------------------------------------------------
(* list_tasks *)

\* the ASCII characters from the space (32) to the underscore (95), in
\* code point order
Ascii ==
    <<" ", "!", "\"", "#", "$", "%", "&", "'", "(", ")", "*", "+",
      ",", "-", ".", "/", "0", "1", "2", "3", "4", "5", "6", "7",
      "8", "9", ":", ";", "<", "=", ">", "?", "@", "A", "B", "C",
      "D", "E", "F", "G", "H", "I", "J", "K", "L", "M", "N", "O",
      "P", "Q", "R", "S", "T", "U", "V", "W", "X", "Y", "Z", "[",
      "\\", "]", "^", "_">>

\* ord(c), for these characters and the lower case letters (97 to 122)
ord(c) ==
    IF \E k \in 1..26 : LowerCase[k] = c
    THEN 96 + CHOOSE k \in 1..26 : LowerCase[k] = c
    ELSE 31 + CHOOSE k \in 1..Len(Ascii) : Ascii[k] = c

\* a < b for two str: by code point at the first difference, a proper
\* prefix first
StrLess(a, b) ==
    \E i \in 1..(Len(b)) :
        /\ i <= Len(a) + 1
        /\ SubSeq(a, 1, i - 1) = SubSeq(b, 1, i - 1)
        /\ (i = Len(a) + 1 \/ ord(a[i]) < ord(b[i]))

MaxDue == <<"9", "9", "9", "9", "-", "1", "2", "-", "3", "1">>

\* t.get("due_date") or "9999-12-31"
DueOr(t) == IF Truthy(t.due_date) THEN t.due_date ELSE MaxDue

\* sort_key(t) < sort_key(u): (due, priority) in mode "due", else
\* (priority, due)
KeyLess(t, u, sort_mode) ==
    IF sort_mode = "due"
    THEN \/ StrLess(DueOr(t), DueOr(u))
         \/ DueOr(t) = DueOr(u) /\ t.priority < u.priority
    ELSE \/ t.priority < u.priority
         \/ t.priority = u.priority /\ StrLess(DueOr(t), DueOr(u))

\* sorted(tasks, key=sort_key): each task in turn goes behind the tasks
\* already placed whose key is not greater than its own
RECURSIVE sorted(_, _)
sorted(tasks, sort_mode) ==
    IF tasks = <<>> THEN <<>>
    ELSE LET n == Len(tasks)
             t == tasks[n]
             done == sorted(SubSeq(tasks, 1, n - 1), sort_mode)
             k == Cardinality({i \in 1..(n - 1) : ~KeyLess(t, done[i], sort_mode)})
         IN  SubSeq(done, 1, k) \o <<t>> \o SubSeq(done, k + 1, n - 1)

\* variant of list_tasks: the tasks kept are sorted from the last to the
\* first
ListTasks_reversed(tasks, filter_mode, sort_mode) ==
    LET kept == IF filter_mode = "pending"
                THEN SelectSeq(tasks, LAMBDA t : t.status = Pending)
                ELSE IF filter_mode = "completed"
                THEN SelectSeq(tasks, LAMBDA t : t.status = Complete)
                ELSE tasks
        n == Len(kept)
    IN  sorted([i \in 1..n |-> kept[n + 1 - i]], sort_mode)

\* variant of list_tasks: the filter "completed" looks for the status
\* "completed"
ListTasks_completed(tasks, filter_mode, sort_mode) ==
    LET kept == IF filter_mode = "pending"
                THEN SelectSeq(tasks, LAMBDA t : t.status = Pending)
                ELSE IF filter_mode = "completed"
                THEN SelectSeq(tasks, LAMBDA t : t.status = Complete \o <<"d">>)
                ELSE tasks
    IN  sorted(kept, sort_mode)

ListTasks(tasks, filter_mode, sort_mode) ==
    LET kept == IF filter_mode = "pending"
                THEN SelectSeq(tasks, LAMBDA t : t.status = Pending)
                ELSE IF filter_mode = "completed"
                THEN SelectSeq(tasks, LAMBDA t : t.status = Complete)
                ELSE tasks
    IN  sorted(kept, sort_mode)

-----------------------------------------------------------------------------
(* get_overview; today is datetime.now(timezone.utc).date() *)

\* variant of get_overview: overdue counted over all tasks
GetOverview_all(tasks, today) ==
    LET pending_tasks == SelectSeq(tasks, LAMBDA t : t.status = Pending)
        late(t) == /\ Truthy(t.due_date)
                   /\ strptime(t.due_date)
                   /\ DateLess(date(t.due_date), today)
    IN  [total |-> Len(tasks),
         incomplete |-> Len(pending_tasks),
         high_priority |->
             Len(SelectSeq(pending_tasks, LAMBDA t : t.priority <= 2)),
         overdue |-> Len(SelectSeq(tasks, late))]

\* variant of get_overview: high_priority is counted over all the tasks
GetOverview_highall(tasks, today) ==
    LET pending_tasks == SelectSeq(tasks, LAMBDA t : t.status = Pending)
        late(t) == /\ Truthy(t.due_date)
                   /\ strptime(t.due_date)
                   /\ DateLess(date(t.due_date), today)
    IN  [total |-> Len(tasks),
         incomplete |-> Len(pending_tasks),
         high_priority |-> Len(SelectSeq(tasks, LAMBDA t : t.priority <= 2)),
         overdue |-> Len(SelectSeq(pending_tasks, late))]

GetOverview(tasks, today) ==
    LET pending_tasks == SelectSeq(tasks, LAMBDA t : t.status = Pending)
        late(t) == /\ Truthy(t.due_date)
                   /\ strptime(t.due_date)
                   /\ DateLess(date(t.due_date), today)
    IN  [total |-> Len(tasks),
         incomplete |-> Len(pending_tasks),
         high_priority |->
             Len(SelectSeq(pending_tasks, LAMBDA t : t.priority <= 2)),
         overdue |-> Len(SelectSeq(pending_tasks, late))]

-----------------------------------------------------------------------------
(* Calls by one process: load, plan, save and return in one step.  last    *)
(* records the call: what _load found, the arguments, the value returned,  *)
(* the exception raised ("" for none), whether _save was called and        *)
(* whether it failed, and whether the call repeats the one before it.      *)

Found(f) == IF f.exists THEN f.doc ELSE "missing"

\* the adapter as a call met it: its mode, and what the client answered or
\* raised when the call got as far as asking it
Asked(ai, reached) ==
    [mode |-> ai.mode,
     content |-> IF reached /\ ai.mode # "unavailable" THEN ai.content
                 ELSE <<>>]

Call(op, args, plan, io) ==
    LET failed == plan.save /\ io # "ok"
    IN  /\ file' = IF plan.save THEN _save(file, plan.tasks, io) ELSE file
        /\ last' = [op |-> op, args |-> args, found |-> Found(file),
                    ret |-> IF failed THEN None ELSE plan.ret,
                    exc |-> IF failed /\ ~plan.caught THEN "OSError" ELSE "",
                    saved |-> plan.save,
                    failed |-> failed,
                    again |-> last.op = op /\ last.args = args]
        /\ UNCHANGED <<procs, mem>>

add_task(title, description, due_date, priority, summarize, now, ai, io) ==
    LET tasks == _load(file)
        plan == AddTask(tasks, title, description, due_date, priority,
                        summarize, now, ai)
    IN  /\ Len(tasks) < MaxTasks
        /\ _next_id(tasks) <= MaxId
        /\ Call("add_task",
                [title |-> title, description |-> description,
                 due_date |-> due_date, priority |-> priority,
                 summarize |-> summarize, ai |-> Asked(ai, summarize)],
                plan, io)
        /\ issued' = IF io = "ok" THEN issued \cup {plan.ret.id} ELSE issued

complete_task(task_id, io) ==
    /\ Call("complete_task", [task_id |-> task_id],
            CompleteTask(_load(file), task_id), io)
    /\ UNCHANGED issued

delete_task(task_id, io) ==
    /\ Call("delete_task", [task_id |-> task_id],
            DeleteTask(_load(file), task_id), io)
    /\ UNCHANGED issued

set_priority(task_id, priority, io) ==
    /\ Call("set_priority", [task_id |-> task_id, priority |-> priority],
            SetPriority(_load(file), task_id, priority), io)
    /\ UNCHANGED issued

prioritize_task(task_id, ai, io) ==
    /\ Call("prioritize_task",
            [task_id |-> task_id,
             ai |-> Asked(ai, Find(_load(file), task_id) # 0)],
            PrioritizeTask(_load(file), task_id, ai), io)
    /\ UNCHANGED issued

edit_task(task_id, title, description, due_date, io) ==
    /\ Call("edit_task",
            [task_id |-> task_id, title |-> title,
             description |-> description, due_date |-> due_date],
            EditTask(_load(file), task_id, title, description, due_date), io)
    /\ UNCHANGED issued

clear_tasks(io) ==
    /\ Call("clear_tasks", [none |-> TRUE], ClearTasks(_load(file)), io)
    /\ UNCHANGED issued

\* an operation that only reads: nothing is saved
Query(op, args, ret) ==
    /\ Call(op, args, Plan(FALSE, _load(file), ret, FALSE), "ok")
    /\ UNCHANGED issued

search_tasks(query) ==
    Query("search_tasks", [query |-> query], SearchTasks(_load(file), query))

\* variant of list_tasks: the list it returns is saved
list_tasks_persist(filter_mode, sort_mode) ==
    /\ Call("list_tasks",
            [filter_mode |-> filter_mode, sort_mode |-> sort_mode],
            Plan(TRUE, ListTasks(_load(file), filter_mode, sort_mode),
                 ListTasks(_load(file), filter_mode, sort_mode), FALSE),
            "ok")
    /\ UNCHANGED issued

list_tasks(filter_mode, sort_mode) ==
    Query("list_tasks", [filter_mode |-> filter_mode, sort_mode |-> sort_mode],
          ListTasks(_load(file), filter_mode, sort_mode))

get_overview(today) ==
    Query("get_overview", [today |-> today], GetOverview(_load(file), today))

-----------------------------------------------------------------------------
(* suggest_tasks.  The prompt is built from the pending tasks and the      *)
(* context; what comes back depends on the adapter alone.                  *)

\* s.lstrip(chars)
RECURSIVE lstripchars(_, _)
lstripchars(s, chars) ==
    IF s # <<>> /\ Head(s) \in chars THEN lstripchars(Tail(s), chars) ELSE s

SuggestUnavailable == <<"(", "T", "a", "s", "k", " ", "s", "u", "g", "g", "e", "s", "t", "i", "o", "n", "s", " ", "u", "n", "a", "v", "a", "i", "l", "a", "b", "l", "e", ":", " ", "O", "p", "e", "n", "A", "I", " ", "A", "P", "I", " ", "k", "e", "y", " ", "n", "o", "t", " ", "s", "e", "t", ")">>

\* variant of suggest_tasks: the client is asked without looking at the
\* package or the key, and an answer without suggestions gives an empty
\* list
SuggestTasks_nocheck(tasks, ai) ==
    LET lines == split(strip(ai.content), "\n")
        suggestions == SelectSeq([i \in 1..Len(lines) |-> strip(lines[i])],
                                 LAMBDA s : s # <<>>)
    IN  IF ai.mode = "error"
        THEN <<<<"(", "S", "u", "g", "g", "e", "s", "t", "i", "o", "n", " ", "e", "r", "r", "o", "r", ":", " ">> \o ai.content \o <<")">>>>
        ELSE suggestions

\* markers are the characters of "0123456789.-* " ; the source's set also
\* has the bullet (U+2022), which no answer used here contains
SuggestTasks(tasks, ai) ==
    LET lines == split(strip(ai.content), "\n")
        suggestions == SelectSeq([i \in 1..Len(lines) |-> strip(lines[i])],
                                 LAMBDA s : s # <<>>)
        markers == {"0", "1", "2", "3", "4", "5", "6", "7", "8", "9", ".",
                    "-", "*", " "}
        cleaned == SelectSeq([i \in 1..Len(suggestions) |->
                                 strip(lstripchars(suggestions[i], markers))],
                             LAMBDA s : s # <<>>)
    IN  IF ai.mode = "unavailable" THEN <<SuggestUnavailable>>
        ELSE IF ai.mode = "error"
        THEN <<<<"(", "S", "u", "g", "g", "e", "s", "t", "i", "o", "n", " ", "e", "r", "r", "o", "r", ":", " ">> \o ai.content \o <<")">>>>
        ELSE IF cleaned # <<>> THEN cleaned
        ELSE <<<<"N", "o", " ", "s", "u", "g", "g", "e", "s", "t", "i", "o", "n", "s", " ", "g", "e", "n", "e", "r", "a", "t", "e", "d">>>>

suggest_tasks(ai) ==
    Query("suggest_tasks", [ai |-> Asked(ai, TRUE)],
          SuggestTasks(_load(file), ai))

-----------------------------------------------------------------------------
(* Inputs *)

Ta == <<"a">>

D0230 == <<"2", "0", "2", "4", "-", "0", "2", "-", "3", "0">>

\* add_task arguments: the defaults; a day that does not exist with a
\* priority below the range; a priority above the range
AddArgs ==
    {[title |-> Ta, description |-> <<>>, due_date |-> None,
      priority |-> 3, summarize |-> FALSE, ai |-> Unavailable],
     [title |-> Ta, description |-> <<>>, due_date |-> D0230,
      priority |-> 0, summarize |-> FALSE, ai |-> Unavailable],
     [title |-> Ta, description |-> <<>>, due_date |-> None,
      priority |-> 6, summarize |-> FALSE, ai |-> Unavailable]}

\* edit_task arguments: nothing given; the title and description the
\* record already has, with a day that does not exist; the empty due date
EditArgs ==
    {[title |-> None, description |-> None, due_date |-> None],
     [title |-> Ta, description |-> <<>>, due_date |-> D0230],
     [title |-> None, description |-> None, due_date |-> <<>>]}

\* set_priority arguments: below the range, in it, above it
Priorities == {0, 2, 6}

TaskIds == 1..MaxId

\* readings of the clock, as _now_iso formats them
Clock ==
    {<<"2", "0", "2", "5", "-", "1", "1", "-", "2", "2", "T", "0", "0", ":",
       "0", "0", ":", "0", "0", "+", "0", "0", ":", "0", "0">>}

R2 ==
    <<"P", "r", "i", "o", "r", "i", "t", "y", ":", " ", "2", "\n", "R", "e",
      "a", "s", "o", "n", ":", " ", "s", "o", "o", "n">>
R9 == <<"P", "r", "i", "o", "r", "i", "t", "y", ":", " ", "9">>

Adapters == {Unavailable, Failing, Answer(R2), Answer(R9)}

\* what the store file can be before the first call: absent, empty,
\* not JSON, or JSON that is not an array
FreshFiles == {Missing, Text("empty", <<>>, 0), Text("invalid", <<>>, 16),
               Text("object", <<>>, 22)}

-----------------------------------------------------------------------------
(* One process, one call at a time *)

NoCall == [op |-> "init", args |-> [none |-> TRUE], found |-> "missing",
           ret |-> None, exc |-> "", saved |-> FALSE, failed |-> FALSE,
           again |-> FALSE]

Procs == {1, 2}

\* a process that has not made its call yet.  Once it has: pc is "loaded"
\* when _load has returned and the list to save is planned, "writing" when
\* _save has opened the file, "done" when the call has returned; tasks is
\* the list to save, ret the value returned when _save succeeds, prev the
\* collection the store held when the file was opened.
\* loaded is what the latest _load returned; during says that the other
\* process had the file open for writing at that moment, and then
\* seen_prev and seen_next are the collections that process was replacing
\* and writing.
Idle == [pc |-> "idle", op |-> "none", ret |-> None, tasks |-> <<>>,
         prev |-> <<>>, loaded |-> <<>>, during |-> FALSE,
         seen_prev |-> <<>>, seen_next |-> <<>>]

Init ==
    /\ file \in FreshFiles
    /\ last = NoCall
    /\ issued = {}
    /\ procs = [p \in Procs |-> Idle]
    /\ mem = <<>>

DoAdd(A, ios) ==
    \E a \in A, now \in Clock, io \in ios :
        add_task(a.title, a.description, a.due_date, a.priority, a.summarize,
                 now, a.ai, io)

DoComplete(ios) ==
    \E task_id \in TaskIds, io \in ios : complete_task(task_id, io)

DoDelete(ios) == \E task_id \in TaskIds, io \in ios : delete_task(task_id, io)

DoSetPriority(ios) ==
    \E task_id \in TaskIds, priority \in Priorities, io \in ios :
        set_priority(task_id, priority, io)

DoPrioritize(ios) ==
    \E task_id \in TaskIds, ai \in Adapters, io \in ios :
        prioritize_task(task_id, ai, io)

DoEdit(E, ios) ==
    \E task_id \in TaskIds, e \in E, io \in ios :
        edit_task(task_id, e.title, e.description, e.due_date, io)

DoClear(ios) == \E io \in ios : clear_tasks(io)

Next ==
    \/ DoAdd(AddArgs, {"ok"})
    \/ DoComplete({"ok"})
    \/ DoDelete({"ok"})
    \/ DoSetPriority({"ok"})
    \/ DoPrioritize({"ok"})
    \/ DoEdit(EditArgs, {"ok"})
    \/ DoClear({"ok"})

Spec == Init /\ [][Next]_vars

-----------------------------------------------------------------------------
(* One process, on a file system where _save can fail *)

NextIO ==
    \/ DoAdd(AddArgs, IoOutcomes)
    \/ DoComplete(IoOutcomes)
    \/ DoDelete(IoOutcomes)
    \/ DoSetPriority(IoOutcomes)
    \/ DoPrioritize(IoOutcomes)
    \/ DoEdit(EditArgs, IoOutcomes)
    \/ DoClear(IoOutcomes)

SpecIO == Init /\ [][NextIO]_vars

-----------------------------------------------------------------------------
(* Two processes on one store, no locking, each making one call (one    *)
(* command of main.py).  A call is up to three steps: _load and the work   *)
(* in memory; open(store_path, "w"), which empties the file; json.dump and *)
(* close, which put the text into it.                                      *)

Other(p) == CHOOSE q \in Procs : q # p

\* process p loads and plans: it goes on to _save or returns at once
Begin(p, op, plan) ==
    LET q == procs[Other(p)]
        busy == q.pc = "writing"
    IN  /\ procs[p].pc = "idle"
        /\ procs' = [procs EXCEPT ![p] =
                [pc |-> IF plan.save THEN "loaded" ELSE "done",
                 op |-> op,
                 ret |-> plan.ret,
                 tasks |-> IF plan.save THEN plan.tasks ELSE <<>>,
                 prev |-> <<>>,
                 loaded |-> _load(file),
                 during |-> busy,
                 seen_prev |-> IF busy THEN q.prev ELSE <<>>,
                 seen_next |-> IF busy THEN q.tasks ELSE <<>>]]
        /\ UNCHANGED <<file, last, issued, mem>>

begin_add_task(p) ==
    \E a \in AddArgs, now \in Clock :
        /\ Len(_load(file)) < MaxTasks
        /\ _next_id(_load(file)) <= MaxId
        /\ Begin(p, "add_task",
                 AddTask(_load(file), a.title, a.description, a.due_date,
                         a.priority, a.summarize, now, a.ai))

begin_complete_task(p) ==
    \E task_id \in TaskIds :
        /\ procs[p].pc = "idle"
        /\ Begin(p, "complete_task", CompleteTask(_load(file), task_id))

begin_delete_task(p) ==
    \E task_id \in TaskIds :
        /\ procs[p].pc = "idle"
        /\ Begin(p, "delete_task", DeleteTask(_load(file), task_id))

begin_clear_tasks(p) ==
    /\ procs[p].pc = "idle"
    /\ Begin(p, "clear_tasks", ClearTasks(_load(file)))

\* _save, first half: open(store_path, "w")
open_file(p) ==
    /\ procs[p].pc = "loaded"
    /\ file' = Truncated
    /\ procs' = [procs EXCEPT ![p].pc = "writing", ![p].prev = _load(file)]
    /\ UNCHANGED <<last, issued, mem>>

\* variant of the second half of _save: a save on a store that changed since
\* the load is refused and the file gets back what it held at the open
write_file_checked(p) ==
    /\ procs[p].pc = "writing"
    /\ file' = IF procs[p].prev = procs[p].loaded
                  THEN Written(file, Dump(procs[p].tasks))
                  ELSE Written(file, Dump(procs[p].prev))
    /\ procs' = [procs EXCEPT ![p].pc = "done"]
    /\ UNCHANGED <<last, issued, mem>>

\* variant of the second half of _save: what the process added is put
\* behind what the file held when it was opened
write_file_merge(p) ==
    /\ procs[p].pc = "writing"
    /\ file' = Written(file,
                       Dump(procs[p].prev \o
                            SelectSeq(procs[p].tasks,
                                      LAMBDA t : \A i \in 1..Len(procs[p].loaded) :
                                                    procs[p].loaded[i].id # t.id)))
    /\ procs' = [procs EXCEPT ![p].pc = "done"]
    /\ UNCHANGED <<last, issued, mem>>

\* _save, second half: json.dump and close; the call returns
write_file(p) ==
    /\ procs[p].pc = "writing"
    /\ file' = Written(file, Dump(procs[p].tasks))
    /\ procs' = [procs EXCEPT ![p].pc = "done"]
    /\ UNCHANGED <<last, issued, mem>>

\* stores the two commands can find: none yet, or what one or two
\* add_task calls and then complete_task(1) leave behind
Added(tasks) ==
    LET a == CHOOSE x \in AddArgs : x.priority = 3
        now == CHOOSE c \in Clock : TRUE
    IN  AddTask(tasks, a.title, a.description, a.due_date, a.priority,
                a.summarize, now, a.ai).tasks

EarlierStores ==
    {Added(<<>>), Added(Added(<<>>)),
     CompleteTask(Added(<<>>), 1).tasks,
     CompleteTask(Added(Added(<<>>)), 1).tasks}

InitConc ==
    /\ file \in {Missing} \cup {_save(Missing, t, "ok") : t \in EarlierStores}
    /\ last = NoCall
    /\ issued = {}
    /\ procs = [p \in Procs |-> Idle]
    /\ mem = <<>>

NextConc ==
    \E p \in Procs :
        \/ begin_add_task(p)
        \/ begin_complete_task(p)
        \/ begin_delete_task(p)
        \/ begin_clear_tasks(p)
        \/ open_file(p)
        \/ write_file(p)

SpecConc == InitConc /\ [][NextConc]_vars

-----------------------------------------------------------------------------
(* _save and _load on their own: a list in memory is written, read back,  *)
(* written again                                                           *)

D0105 == <<"2", "0", "2", "4", "-", "0", "1", "-", "0", "5">>

\* well-formed tasks: ids in any order, due date absent, empty or a date,
\* either status
SomeTasks ==
    {[id |-> i, title |-> Ta, description |-> <<>>, created_at |-> now,
      due_date |-> due, priority |-> 3, status |-> st, summary |-> <<>>] :
        i \in 1..2, now \in Clock, due \in {None, <<>>, D0105},
        st \in {Pending, Complete}}

RECURSIVE SeqsUpTo(_, _)
SeqsUpTo(S, n) ==
    IF n = 0 THEN {<<>>}
    ELSE LET shorter == SeqsUpTo(S, n - 1)
         IN  shorter \cup {Append(q, x) : q \in shorter, x \in S}

InitRT ==
    /\ file \in FreshFiles
    /\ mem \in SeqsUpTo(SomeTasks, MaxTasks)
    /\ last = NoCall
    /\ issued = {}
    /\ procs = [p \in Procs |-> Idle]

save_mem ==
    /\ file' = _save(file, mem, "ok")
    /\ last' = [NoCall EXCEPT !.op = "_save", !.found = Found(file),
                              !.saved = TRUE]
    /\ UNCHANGED <<mem, issued, procs>>

load_mem ==
    /\ mem' = _load(file)
    /\ last' = [NoCall EXCEPT !.op = "_load", !.found = Found(file)]
    /\ UNCHANGED <<file, issued, procs>>

NextRT == save_mem \/ load_mem

SpecRT == InitRT /\ [][NextRT]_vars

-----------------------------------------------------------------------------
(* add_task and search_tasks *)

\* tasks to search: a title starting with "b" in upper case; "b" only in
\* the description; "b" only in the summary the adapter wrote; a title
\* that contains "b" and starts with "a"
SearchAddArgs ==
    {[title |-> <<"B", "a">>, description |-> <<>>, due_date |-> None,
      priority |-> 3, summarize |-> FALSE, ai |-> Unavailable],
     [title |-> <<"c">>, description |-> <<"a", "B">>, due_date |-> None,
      priority |-> 3, summarize |-> FALSE, ai |-> Unavailable],
     [title |-> <<"c">>, description |-> <<>>, due_date |-> None,
      priority |-> 3, summarize |-> TRUE, ai |-> Answer(<<" ", "A", "b", "\n">>)],
     [title |-> <<"a", "b">>, description |-> <<"b">>, due_date |-> None,
      priority |-> 3, summarize |-> FALSE, ai |-> Unavailable]}

Queries == {<<>>, <<"b">>, <<"B">>, <<"a", "b">>, <<"x">>}

DoSearch == \E query \in Queries : search_tasks(query)

NextSearch == DoAdd(SearchAddArgs, {"ok"}) \/ DoSearch

SpecSearch == Init /\ [][NextSearch]_vars

-----------------------------------------------------------------------------
(* add_task, complete_task and list_tasks *)

D0110 == <<"2", "0", "2", "4", "-", "0", "1", "-", "1", "0">>
D15 == <<"2", "0", "2", "4", "-", "1", "-", "5">>

\* tasks to list: no due date, 10 January and 5 January (written without
\* the zeros, which strptime accepts), each with priority 1 and 3
ListAddArgs ==
    {[title |-> Ta, description |-> <<>>, due_date |-> due,
      priority |-> priority, summarize |-> FALSE, ai |-> Unavailable] :
        due \in {None, D0110, D15}, priority \in {1, 3}}

FilterModes == {"all", "pending", "completed"}
SortModes == {"priority", "due"}

DoList ==
    \E filter_mode \in FilterModes, sort_mode \in SortModes :
        list_tasks(filter_mode, sort_mode)

NextList == DoAdd(ListAddArgs, {"ok"}) \/ DoComplete({"ok"}) \/ DoList

SpecList == Init /\ [][NextList]_vars

-----------------------------------------------------------------------------
(* add_task, complete_task and get_overview *)

\* tasks to count: no due date, the empty due date, 5 January with
\* priority 2 and 3, 10 January
OverviewAddArgs ==
    {[title |-> Ta, description |-> <<>>, due_date |-> a[1],
      priority |-> a[2], summarize |-> FALSE, ai |-> Unavailable] :
        a \in {<<None, 2>>, <<<<>>, 3>>, <<D15, 2>>, <<D15, 3>>, <<D0110, 3>>}}

\* the days on which get_overview is called: 5 and 10 January 2024
Todays == {<<2024, 1, 5>>, <<2024, 1, 10>>}

\* a store written by hand: one pending task whose due date is not a date
ForeignStore ==
    _save(Missing,
          <<[id |-> 1, title |-> Ta, description |-> <<>>,
             created_at |-> CHOOSE now \in Clock : TRUE,
             due_date |-> <<"s", "o", "o", "n">>, priority |-> 1, status |-> Pending,
             summary |-> <<>>]>>,
          "ok")

InitOverview ==
    /\ file \in FreshFiles \cup {ForeignStore}
    /\ last = NoCall
    /\ issued = {}
    /\ procs = [p \in Procs |-> Idle]
    /\ mem = <<>>

DoOverview == \E today \in Todays : get_overview(today)

NextOverview ==
    DoAdd(OverviewAddArgs, {"ok"}) \/ DoComplete({"ok"}) \/ DoOverview

SpecOverview == InitOverview /\ [][NextOverview]_vars

-----------------------------------------------------------------------------
(* add_task on its own, over its arguments *)

Invalid == <<"i", "n", "v", "a", "l", "i", "d">>

\* priorities around the limits, with no due date; due dates that are
\* empty, not a date, a day that does not exist, a date, a date written
\* without zeros, with priority 3; the empty title
NormAddArgs ==
    {[title |-> Ta, description |-> <<>>, due_date |-> None,
      priority |-> priority, summarize |-> FALSE, ai |-> Unavailable] :
        priority \in {0 - 1, 0, 1, 5, 6}}
    \cup
    {[title |-> Ta, description |-> <<>>, due_date |-> due,
      priority |-> 3, summarize |-> FALSE, ai |-> Unavailable] :
        due \in {<<>>, Invalid, D0230, D0110, D15}}
    \cup
    {[title |-> <<>>, description |-> <<>>, due_date |-> None,
      priority |-> 3, summarize |-> FALSE, ai |-> Unavailable]}

NextAdd == DoAdd(NormAddArgs, {"ok"})

SpecAdd == Init /\ [][NextAdd]_vars

-----------------------------------------------------------------------------
(* add_task and edit_task, over the due dates they are given *)

Tb == <<"b">>
Dc == <<"c">>

\* add_task with no due date, the empty one, text that is not a date, a date
DueAddArgs ==
    {[title |-> Ta, description |-> <<>>, due_date |-> due,
      priority |-> 3, summarize |-> FALSE, ai |-> Unavailable] :
        due \in {None, <<>>, Invalid, D0110}}

\* edit_task with nothing given; a new title and description with text
\* that is not a date; the empty due date; a date; a day that does not exist
DueEditArgs ==
    {[title |-> None, description |-> None, due_date |-> None],
     [title |-> Tb, description |-> Dc, due_date |-> Invalid],
     [title |-> None, description |-> None, due_date |-> <<>>],
     [title |-> None, description |-> None, due_date |-> D15],
     [title |-> None, description |-> None, due_date |-> D0230]}

NextEdit == DoAdd(DueAddArgs, {"ok"}) \/ DoEdit(DueEditArgs, {"ok"})

SpecEdit == Init /\ [][NextEdit]_vars

-----------------------------------------------------------------------------
(* add_task, set_priority and prioritize_task, over the priorities they    *)
(* are given and the answers of the adapter                                *)

AnyPriorities == {0 - 1, 0, 1, 5, 6}

PrioAddArgs ==
    {[title |-> Ta, description |-> <<>>, due_date |-> None,
      priority |-> priority, summarize |-> FALSE, ai |-> Unavailable] :
        priority \in AnyPriorities}

\* answers of the adapter: a priority of 0, a negative one, a word, no
\* priority line, no number, an answer with spaces around it, the tag in
\* lower case, two priority lines, a second colon
R0 == <<"P", "r", "i", "o", "r", "i", "t", "y", ":", " ", "0">>
RMinus1 == <<"P", "r", "i", "o", "r", "i", "t", "y", ":", " ", "-", "1">>
RHigh == <<"P", "r", "i", "o", "r", "i", "t", "y", ":", " ", "h", "i", "g", "h">>
RReasonOnly == <<"R", "e", "a", "s", "o", "n", ":", " ", "l", "a", "t", "e">>
RNoNumber == <<"P", "r", "i", "o", "r", "i", "t", "y", ":">>
RPadded4 == <<" ", " ", "P", "r", "i", "o", "r", "i", "t", "y", ":", " ", "4", " ", " ">>
RLowerCase == <<"p", "r", "i", "o", "r", "i", "t", "y", ":", " ", "1">>
RTwice == <<"P", "r", "i", "o", "r", "i", "t", "y", ":", " ", "1", "\n", "P", "r", "i", "o", "r", "i", "t", "y", ":", " ", "7">>
RClock == <<"P", "r", "i", "o", "r", "i", "t", "y", ":", " ", "5", ":", "0", "0">>

AnyAdapters ==
    {Unavailable, Failing} \cup
    {Answer(r) : r \in {R2, R9, R0, RMinus1, RHigh, RReasonOnly, RNoNumber,
                        RPadded4, RLowerCase, RTwice, RClock}}

NextPrio ==
    \/ DoAdd(PrioAddArgs, {"ok"})
    \/ \E task_id \in TaskIds, priority \in AnyPriorities :
           set_priority(task_id, priority, "ok")
    \/ \E task_id \in TaskIds, ai \in AnyAdapters :
           prioritize_task(task_id, ai, "ok")

SpecPrio == Init /\ [][NextPrio]_vars

-----------------------------------------------------------------------------
(* add_task, complete_task, delete_task and clear_tasks on tasks that      *)
(* differ in their titles                                                  *)

StoreAddArgs ==
    {[title |-> title, description |-> <<>>, due_date |-> None,
      priority |-> 3, summarize |-> FALSE, ai |-> Unavailable] :
        title \in {Ta, Tb}}

NextStore ==
    \/ DoAdd(StoreAddArgs, {"ok"})
    \/ DoComplete({"ok"})
    \/ DoDelete({"ok"})
    \/ DoClear({"ok"})

SpecStore == Init /\ [][NextStore]_vars

-----------------------------------------------------------------------------
(* add_task, complete_task and clear_tasks: without delete_task, a store   *)
(* that held records is empty only after clear_tasks                       *)

NextClear ==
    \/ DoAdd(StoreAddArgs, {"ok"})
    \/ DoComplete({"ok"})
    \/ DoClear({"ok"})

SpecClear == Init /\ [][NextClear]_vars

-----------------------------------------------------------------------------
(* add_task with and without a summary, over what the adapter can do *)

\* the text a client would answer with
SumText == <<" ", "s", "h", "o", "r", "t", " ", "\n">>

\* no API key: the client would answer, but is never built
NoKey == [mode |-> "unavailable", content |-> SumText]

\* the client raises another exception
TimingOut == [mode |-> "error", content |-> <<"A", "P", "I", "T", "i", "m", "e", "o", "u", "t", "E", "r", "r", "o", "r">>]

SumAdapters == {Unavailable, NoKey, Failing, TimingOut, Answer(SumText)}

SumAddArgs ==
    {[title |-> Ta, description |-> <<>>, due_date |-> None,
      priority |-> 3, summarize |-> summarize, ai |-> ai] :
        summarize \in BOOLEAN, ai \in SumAdapters}

NextSum == DoAdd(SumAddArgs, {"ok"}) \/ DoDelete({"ok"})

SpecSum == Init /\ [][NextSum]_vars

-----------------------------------------------------------------------------
(* add_task while the clock advances, and the operations that change a     *)
(* stored record: edit_task, complete_task, set_priority, prioritize_task  *)

\* what _now_iso returns on the n-th day after 20 November 2025
KeepClock(n) ==
    <<"2", "0", "2", "5", "-", "1", "1", "-", "2", Digits[n + 1]>> \o
    <<"T", "0", "0", ":", "0", "0", ":", "0", "0", "+", "0", "0", ":", "0", "0">>

KeepEditArgs == {[title |-> Tb, description |-> None, due_date |-> None]}

\* the task with id n is added on day n
DoAddLater ==
    add_task(Ta, <<>>, None, 3, FALSE, KeepClock(_next_id(_load(file))),
             Unavailable, "ok")

NextKeep ==
    \/ DoAddLater
    \/ DoEdit(KeepEditArgs, {"ok"})
    \/ DoComplete({"ok"})
    \/ \E task_id \in TaskIds : set_priority(task_id, 2, "ok")
    \/ \E task_id \in TaskIds, ai \in {Failing, Answer(R9)} :
           prioritize_task(task_id, ai, "ok")

SpecKeep == Init /\ [][NextKeep]_vars

-----------------------------------------------------------------------------
(* The three queries on stores whose order is not the display order *)

\* a task with the default priority and no due date, and a more urgent
\* one that is due
QueryAddArgs ==
    {[title |-> Ta, description |-> <<>>, due_date |-> None,
      priority |-> 3, summarize |-> FALSE, ai |-> Unavailable],
     [title |-> Tb, description |-> <<>>, due_date |-> D0110,
      priority |-> 1, summarize |-> FALSE, ai |-> Unavailable]}

NextQuery ==
    \/ DoAdd(QueryAddArgs, {"ok"})
    \/ DoComplete({"ok"})
    \/ DoList
    \/ \E query \in {<<>>, Tb} : search_tasks(query)
    \/ \E today \in {<<2024, 1, 11>>} : get_overview(today)

SpecQuery == Init /\ [][NextQuery]_vars

-----------------------------------------------------------------------------
(* add_task, complete_task and suggest_tasks, over what the adapter can do *)

\* no package or key, with and without an answer the client would give; a
\* client that raises; a list with markers and an empty line; an empty
\* answer; an answer of markers only
SuggestAdapters ==
    {Unavailable, NoKey, Failing,
     Answer(<<"1", ".", " ", "a", "\n", "\n", "-", " ", "b", " ", "\n">>),
     Answer(<<>>),
     Answer(<<"1", ".", "\n", " ", "-", " ", "*">>)}

NextSuggest ==
    \/ DoAdd(StoreAddArgs, {"ok"})
    \/ DoComplete({"ok"})
    \/ \E ai \in SuggestAdapters : suggest_tasks(ai)

SpecSuggest == Init /\ [][NextSuggest]_vars

-----------------------------------------------------------------------------
(* Properties of the calls of one process (specification Spec) *)

\* the stored collection: what a load returns now
Stored == _load(file)

Ids(tasks) == {tasks[i].id : i \in 1..Len(tasks)}

\* C1 as stated: every add_task returns an id strictly greater than every id
\* an earlier add_task returned, also when records were deleted in between.
C1_IdAboveAllIssued ==
    [][last'.op = "add_task" => \A i \in issued : last'.ret.id > i]_vars

\* C1 amended: every add_task returns an id strictly greater than every id
\* an earlier add_task returned and whose record is still stored.
C1_IdAboveAllStored ==
    [][last'.op = "add_task" =>
          LET stored == Ids(_load(file))
          IN  \A i \in issued : i \in stored => last'.ret.id > i]_vars

\* add_task has returned after an earlier record was deleted
C1_Witness ==
    /\ last.op = "add_task"
    /\ Len(Stored) = 2
    /\ \E i \in issued : i \notin Ids(Stored)

\* C2: no two records of the stored collection have the same id.
C2_IdsUnique ==
    \A i, j \in 1..Len(Stored) : i # j => Stored[i].id # Stored[j].id

\* two records are stored, the first one added has been deleted
C2_Witness ==
    /\ last.op = "add_task"
    /\ Len(Stored) = 2
    /\ Stored[1].id = 2
    /\ Stored[2].id = 3

\* C3: no call changes the status of a stored record from complete back to
\* pending, and the record add_task creates is pending.
C3_StatusOnlyAdvances ==
    [][file' # file =>
       LET before == _load(file)
           after == _load(file')
       IN  /\ \A i \in 1..Len(before), j \in 1..Len(after) :
                  (before[i].id = after[j].id /\ before[i].status = Complete)
                      => after[j].status = Complete
           /\ last'.op = "add_task" =>
                  /\ last'.ret.status = Pending
                  /\ after[Len(after)] = last'.ret]_vars

\* a completed record has been edited and is still complete
C3_Witness ==
    /\ last.op = "edit_task"
    /\ last.args.title # None
    /\ last.saved
    /\ last.ret = TRUE
    /\ Stored[Find(Stored, last.args.task_id)].status = Complete

\* C4: complete_task on a stored id returns true and leaves the record
\* complete; when it repeats the call before it, the store does not change.
C4_CompleteIdempotent ==
    [][(last'.op = "complete_task" /\ Find(Stored, last'.args.task_id) # 0) =>
          /\ last'.ret = TRUE
          /\ LET after == _load(file')
             IN  after[Find(after, last'.args.task_id)].status = Complete
          /\ (last.op = "complete_task" /\ last.args = last'.args)
                 => file' = file]_vars

\* complete_task was called twice in a row with the same stored id
C4_Witness ==
    /\ last.op = "complete_task"
    /\ last.again
    /\ last.ret = TRUE
    /\ Len(Stored) = 2

\* C5: a missing, empty, unparseable or non-array file loads as the empty
\* collection, and add_task then returns id 1 and stores that record alone.
C5_UnreadableLoadsEmpty ==
    [][(~file.exists \/ file.doc # "array") =>
          /\ _load(file) = <<>>
          /\ last'.op = "add_task" =>
                 /\ last'.exc = ""
                 /\ last'.ret.id = 1
                 /\ _load(file') = <<last'.ret>>]_vars

\* add_task has run on a file that was not JSON
C5_Witness ==
    /\ last.op = "add_task"
    /\ last.found = "invalid"
    /\ Stored = <<last.ret>>

\* C9: set_priority with a priority outside 1..5 returns false, does not
\* save and leaves the store unchanged, whether or not the id exists.
C9_BadPriorityRejected ==
    [][(/\ last'.op = "set_priority"
        /\ (last'.args.priority < 1 \/ last'.args.priority > 5)) =>
          /\ last'.ret = FALSE
          /\ ~last'.saved
          /\ file' = file]_vars

\* set_priority was refused for a stored record whose priority is not the
\* default
C9_Witness ==
    /\ last.op = "set_priority"
    /\ last.args.priority = 0
    /\ last.ret = FALSE
    /\ Find(Stored, last.args.task_id) # 0
    /\ Stored[Find(Stored, last.args.task_id)].priority = 2

\* C10: complete_task, edit_task, delete_task and set_priority with an id
\* that is not stored return false, raise nothing, do not save and leave
\* the store unchanged.
C10_NotFoundReturnsFalse ==
    [][(/\ last'.op \in {"complete_task", "edit_task", "delete_task",
                         "set_priority"}
        /\ Find(Stored, last'.args.task_id) = 0) =>
          /\ last'.exc = ""
          /\ last'.ret = FALSE
          /\ ~last'.saved
          /\ file' = file]_vars

\* delete_task was called with an id that is not among the stored ones
C10_Witness ==
    /\ last.op = "delete_task"
    /\ last.ret = FALSE
    /\ Len(Stored) = 2
    /\ last.args.task_id \notin Ids(Stored)

\* C36: the stored records are in strictly ascending order of id.
C36_AscendingIds ==
    \A i \in 1..Len(Stored) :
        \A j \in (i + 1)..Len(Stored) : Stored[i].id < Stored[j].id

\* after a delete_task and two more add_task, set_priority has changed the
\* second of the records 2 and 3
C36_Witness ==
    /\ last.op = "set_priority"
    /\ last.args.task_id = 3
    /\ last.ret = TRUE
    /\ Len(Stored) = 2
    /\ Stored[1].id = 2
    /\ Stored[2].id = 3
    /\ Stored[2].priority = 2

-----------------------------------------------------------------------------
(* Properties of _save failing (specification SpecIO) *)

\* C8: when _save fails inside a mutating operation, the operation raises
\* the error to its caller.
C8_SaveErrorPropagates == last.failed => last.exc = "OSError"

-----------------------------------------------------------------------------
(* Properties of two processes sharing the store (specification SpecConc) *)

\* C6: a load made while the other process has the file open for writing
\* returns the whole collection from before that save or the whole
\* collection it writes.
C6_LoadSeesWholeCollection ==
    \A p \in Procs :
        procs[p].during =>
            procs[p].loaded \in {procs[p].seen_prev, procs[p].seen_next}

\* process p has returned from a call that saved and reported success
Succeeded(p) ==
    /\ procs[p].pc = "done"
    /\ \/ procs[p].op = "add_task"
       \/ procs[p].op \in {"complete_task", "delete_task"} /\ procs[p].ret = TRUE
       \/ procs[p].op = "clear_tasks" /\ procs[p].ret > 0

\* both processes loaded the same collection, neither while the other was
\* writing; q saved first, on the store as loaded, and p saved after q had
\* finished
SavedInTurn(q, p) ==
    /\ Succeeded(q)
    /\ Succeeded(p)
    /\ ~procs[q].during
    /\ ~procs[p].during
    /\ procs[p].loaded = procs[q].loaded
    /\ procs[q].tasks # <<>>
    /\ procs[q].prev = procs[q].loaded
    /\ procs[p].prev = procs[q].tasks

\* C25: when both processes load before either saves and then save one
\* after the other, the store holds what the later one wrote, computed from
\* the collection as it was before the earlier save.
C25_LastSaveWins ==
    \A p \in Procs : SavedInTurn(Other(p), p) => Stored = procs[p].tasks

\* complete_task(1) returned true in one process, add_task returned in the
\* other and saved last: the store holds two records and record 1 is still
\* pending
C25_Witness ==
    \E p \in Procs :
        /\ SavedInTurn(Other(p), p)
        /\ procs[Other(p)].op = "complete_task"
        /\ procs[Other(p)].ret = TRUE
        /\ procs[Other(p)].tasks[1].status = Complete
        /\ procs[p].op = "add_task"
        /\ Len(Stored) = 2
        /\ Stored[1].id = 1
        /\ Stored[1].status = Pending

\* C35: whatever the interleaving of the loads and saves of the two
\* processes, no two records of the stored collection have the same id.
C35_NoDuplicateIdsEver ==
    \A i \in 1..Len(Stored) :
        \A j \in (i + 1)..Len(Stored) : Stored[i].id # Stored[j].id

\* both processes have added a task and both were given id 2; the store
\* holds record 1 and one record with id 2
C35_Witness ==
    /\ \A p \in Procs :
           /\ procs[p].pc = "done"
           /\ procs[p].op = "add_task"
           /\ procs[p].ret.id = 2
    /\ Len(Stored) = 2
    /\ Stored[1].id = 1
    /\ Stored[2].id = 2

-----------------------------------------------------------------------------
(* Properties of _save and _load on their own (specification SpecRT) *)

\* C7: loading after saving a well-formed list returns that list, field for
\* field and in the same order; saving after loading leaves the stored
\* collection as it was.
C7_RoundTrip ==
    [][/\ (last.op = "_save" /\ last'.op = "_load") => mem' = mem
       /\ (last.op = "_load" /\ last'.op = "_save") =>
              _load(file') = _load(file)]_vars

\* two tasks, out of id order, one without a due date and one with the
\* empty due date, have been saved and loaded back
C7_Witness ==
    /\ last.op = "_load"
    /\ last.found = "array"
    /\ Len(mem) = 2
    /\ mem[1].id > mem[2].id
    /\ mem[1].due_date = None
    /\ mem[2].due_date = <<>>

-----------------------------------------------------------------------------
(* Properties of search_tasks (specification SpecSearch) *)

\* the k-th smallest member of a set of indices
Nth(I, k) == CHOOSE i \in I : Cardinality({j \in I : j < i}) = k - 1

\* indices of the stored records whose title starts with q / which contain
\* q in the title, description or summary
Tier1(tasks, q) ==
    {i \in 1..Len(tasks) : startswith(lower(tasks[i].title), lower(q))}

Tier2(tasks, q) ==
    {i \in 1..Len(tasks) \ Tier1(tasks, q) :
        \/ contains(lower(tasks[i].title), lower(q))
        \/ contains(lower(tasks[i].description), lower(q))
        \/ contains(lower(tasks[i].summary), lower(q))}

\* C11: search_tasks returns the records whose title starts with the query
\* in stored order, then the other records that contain it in stored order,
\* each once and nothing else; case is ignored.
C11_SearchTwoTiers ==
    last.op = "search_tasks" =>
        LET t1 == Tier1(Stored, last.args.query)
            t2 == Tier2(Stored, last.args.query)
            n1 == Cardinality(t1)
            n2 == Cardinality(t2)
        IN  /\ Len(last.ret) = n1 + n2
            /\ \A k \in 1..n1 : last.ret[k] = Stored[Nth(t1, k)]
            /\ \A k \in 1..n2 : last.ret[n1 + k] = Stored[Nth(t2, k)]

\* a record matched by its title's first letter was returned ahead of a
\* record stored before it that matches in the description only
C11_Witness ==
    /\ last.op = "search_tasks"
    /\ last.args.query = <<"B">>
    /\ Len(Stored) = 2
    /\ last.ret = <<Stored[2], Stored[1]>>
    /\ Stored[1].description = <<"a", "B">>

\* C12: search_tasks with the empty query returns the whole stored
\* collection in stored order.
C12_EmptyQueryReturnsAll ==
    (last.op = "search_tasks" /\ last.args.query = <<>>) => last.ret = Stored

\* the empty query was answered with two stored records
C12_Witness ==
    /\ last.op = "search_tasks"
    /\ last.args.query = <<>>
    /\ Len(last.ret) = 2
    /\ last.ret[1].title # last.ret[2].title

-----------------------------------------------------------------------------
(* Properties of list_tasks (specification SpecList) *)

\* the record has a due date, one that is a calendar date
Dated(t) == Truthy(t.due_date) /\ strptime(t.due_date)

\* C13: in sort mode "due", no record without a due date comes before a
\* record with one, the records with a due date are in ascending order of
\* the calendar date, and on the same date in ascending order of priority.
C13_DueOrder ==
    (last.op = "list_tasks" /\ last.args.sort_mode = "due") =>
        \A i, j \in 1..Len(last.ret) :
            i < j =>
                LET a == last.ret[i]
                    b == last.ret[j]
                IN  /\ ~(a.due_date = None /\ Dated(b))
                    /\ (Dated(a) /\ Dated(b)) =>
                           /\ ~DateLess(date(b.due_date), date(a.due_date))
                           /\ date(a.due_date) = date(b.due_date)
                                  => a.priority <= b.priority

\* C14: in sort mode "priority", the records are in ascending order of
\* priority; among records of one priority, those with a due date are in
\* ascending order of the calendar date and come before those without.
C14_PriorityOrder ==
    (last.op = "list_tasks" /\ last.args.sort_mode = "priority") =>
        \A i, j \in 1..Len(last.ret) :
            i < j =>
                LET a == last.ret[i]
                    b == last.ret[j]
                IN  /\ a.priority <= b.priority
                    /\ a.priority = b.priority =>
                           /\ ~(a.due_date = None /\ Dated(b))
                           /\ (Dated(a) /\ Dated(b)) =>
                                  ~DateLess(date(b.due_date), date(a.due_date))

\* C31: list_tasks returns each stored record once when the filter is
\* "all", each stored record with status pending once and nothing else
\* when it is "pending", and each stored record with status complete once
\* and nothing else when it is "completed".
C31_FilterByStatus ==
    last.op = "list_tasks" =>
        LET wanted == {i \in 1..Len(Stored) :
                          \/ last.args.filter_mode = "all"
                          \/ /\ last.args.filter_mode = "pending"
                             /\ Stored[i].status = Pending
                          \/ /\ last.args.filter_mode = "completed"
                             /\ Stored[i].status = Complete}
        IN  /\ Len(last.ret) = Cardinality(wanted)
            /\ \A i \in wanted : \E j \in 1..Len(last.ret) :
                   last.ret[j] = Stored[i]

\* of a pending and a complete record, list_tasks with the filter
\* "completed" has returned the complete one alone
C31_Witness ==
    /\ last.op = "list_tasks"
    /\ last.args.filter_mode = "completed"
    /\ Len(Stored) = 2
    /\ Stored[1].status = Pending
    /\ Stored[2].status = Complete
    /\ last.ret = <<Stored[2]>>

\* C33: two records with the same priority and the same effective due date
\* are returned by list_tasks in the order in which they are stored, in
\* both sort modes.
C33_SortStable ==
    last.op = "list_tasks" =>
        \A i, j \in 1..Len(last.ret) :
            (/\ i < j
             /\ last.ret[i].priority = last.ret[j].priority
             /\ DueOr(last.ret[i]) = DueOr(last.ret[j])) =>
                Find(Stored, last.ret[i].id) < Find(Stored, last.ret[j].id)

\* two records due on 10 January with priority 1 were listed by due date
\* with the one stored first in front
C33_Witness ==
    /\ last.op = "list_tasks"
    /\ last.args.sort_mode = "due"
    /\ Len(last.ret) = 2
    /\ last.ret[1].due_date = D0110 /\ last.ret[1].priority = 1
    /\ last.ret[2].due_date = D0110 /\ last.ret[2].priority = 1
    /\ last.ret = Stored

-----------------------------------------------------------------------------
(* Properties of get_overview (specification SpecOverview) *)

\* C15: get_overview returns the number of records, of pending records, of
\* pending records with priority 1 or 2, and of pending records whose due
\* date is present, is a calendar date and lies before today.
C15_OverviewCounts ==
    last.op = "get_overview" =>
        LET all == 1..Len(Stored)
            pending == {i \in all : Stored[i].status = Pending}
            late == {i \in pending :
                        /\ Stored[i].due_date \notin {None, <<>>}
                        /\ strptime(Stored[i].due_date)
                        /\ DateLess(date(Stored[i].due_date),
                                    last.args.today)}
        IN  /\ last.ret.total = Cardinality(all)
            /\ last.ret.incomplete = Cardinality(pending)
            /\ last.ret.high_priority =
                   Cardinality({i \in pending : Stored[i].priority <= 2})
            /\ last.ret.overdue = Cardinality(late)

\* get_overview on 10 January, the store holding a task whose due date is
\* not a date and a task due on 5 January: one task is overdue
C15_Witness ==
    /\ last.op = "get_overview"
    /\ last.args.today = <<2024, 1, 10>>
    /\ Len(Stored) = 2
    /\ Stored[1].due_date = <<"s", "o", "o", "n">>
    /\ Stored[2].due_date = D15
    /\ last.ret.incomplete = 2
    /\ last.ret.overdue = 1

-----------------------------------------------------------------------------
(* Properties of add_task over its arguments (specification SpecAdd) *)

\* C16: the record add_task creates and stores has the priority given if
\* it is in 1..5 and 3 otherwise, the due date given if it is a calendar
\* date and none otherwise, and status pending.
C16_AddNormalizes ==
    last.op = "add_task" =>
        /\ last.ret.priority =
               IF last.args.priority \in 1..5 THEN last.args.priority ELSE 3
        /\ last.ret.due_date =
               IF last.args.due_date # None /\ strptime(last.args.due_date)
               THEN last.args.due_date ELSE None
        /\ last.ret.status = Pending
        /\ Stored[Len(Stored)] = last.ret

\* C19: no stored record has the empty title.
C19_TitleNotEmpty ==
    \A i \in 1..Len(Stored) : Stored[i].title # <<>>

-----------------------------------------------------------------------------
(* Properties of the stored due dates (specification SpecEdit) *)

\* C17: every stored record's due date is absent or a calendar date.
C17_DueAbsentOrDate ==
    \A i \in 1..Len(Stored) :
        Stored[i].due_date = None \/ strptime(Stored[i].due_date)

\* the step is an edit_task call on a stored id that returns true and saves,
\* leaves the record's due date as it was, and sets the title and the
\* description to the ones given, if any
EditKeepsDue ==
    LET before == _load(file)
        after == _load(file')
        i == Find(before, last'.args.task_id)
    IN  /\ last'.ret = TRUE
        /\ last'.saved
        /\ last'.exc = ""
        /\ Len(after) = Len(before)
        /\ after[i].due_date = before[i].due_date
        /\ after[i].title = IF last'.args.title # None
                            THEN last'.args.title ELSE before[i].title
        /\ after[i].description = IF last'.args.description # None
                                  THEN last'.args.description
                                  ELSE before[i].description

\* C20 as stated: edit_task on a stored id with a due date that is not a
\* calendar date keeps the due date the record had, applies the title and
\* description given, saves and returns true.
C20_UnparsedDueKept ==
    [][(/\ last'.op = "edit_task"
        /\ Find(Stored, last'.args.task_id) # 0
        /\ last'.args.due_date # None
        /\ ~strptime(last'.args.due_date)) => EditKeepsDue]_vars

\* C20 amended: the same for a due date that is not empty and is not a
\* calendar date (the empty due date clears the field).
C20_NonEmptyUnparsedDueKept ==
    [][(/\ last'.op = "edit_task"
        /\ Find(Stored, last'.args.task_id) # 0
        /\ last'.args.due_date \notin {None, <<>>}
        /\ ~strptime(last'.args.due_date)) => EditKeepsDue]_vars

\* a record due on 10 January was given a new title together with a due
\* date that is not a date: it has the new title and is still due that day
C20_Witness ==
    /\ last.op = "edit_task"
    /\ last.args.due_date = Invalid
    /\ last.args.title = Tb
    /\ last.ret = TRUE
    /\ Find(Stored, last.args.task_id) # 0
    /\ Stored[Find(Stored, last.args.task_id)].title = Tb
    /\ Stored[Find(Stored, last.args.task_id)].description = Dc
    /\ Stored[Find(Stored, last.args.task_id)].due_date = D0110

\* C37: edit_task on the id of a stored record returns True; with the
\* empty string as due_date the record's due date is None afterwards, with
\* no due_date given it is what it was, and with no field given the stored
\* collection is what it was.
C37_EditDueEmptyOrOmitted ==
    [][(/\ last'.op = "edit_task"
        /\ Find(Stored, last'.args.task_id) # 0) =>
          LET i == Find(Stored, last'.args.task_id)
          IN  /\ last'.ret = TRUE
              /\ last'.args.due_date = <<>> =>
                     _load(file')[i].due_date = None
              /\ last'.args.due_date = None =>
                     _load(file')[i].due_date = Stored[i].due_date
              /\ (/\ last'.args.title = None
                  /\ last'.args.description = None
                  /\ last'.args.due_date = None) =>
                     _load(file') = Stored]_vars

\* edit_task with the empty due date and nothing else on the second of two
\* records: it has no due date, and the first is still due on 10 January
C37_Witness ==
    /\ last.op = "edit_task"
    /\ last.args.task_id = 2
    /\ last.args.due_date = <<>>
    /\ last.args.title = None
    /\ last.ret = TRUE
    /\ Len(Stored) = 2
    /\ Stored[2].id = 2 /\ Stored[2].due_date = None
    /\ Stored[1].due_date = D0110

-----------------------------------------------------------------------------
(* Properties of the stored priorities (specification SpecPrio) *)

\* C18: every stored record's priority is an integer from 1 to 5.
C18_PriorityInRange ==
    \A i \in 1..Len(Stored) : Stored[i].priority \in 1..5

\* set_priority with 6 was refused on a store holding a record with
\* priority 4, which only prioritize_task can have stored, and one with
\* priority 5
C18_Witness ==
    /\ last.op = "set_priority"
    /\ last.args.priority = 6
    /\ last.ret = FALSE
    /\ Len(Stored) = 2
    /\ Stored[1].priority = 4
    /\ Stored[2].priority = 5
    /\ last.args.task_id = Stored[2].id

\* C27: prioritize_task returns None and leaves the store file as it was
\* when the adapter is unavailable, when no stored record has the id, and
\* when the call to the adapter raises.
C27_NoResultLeavesStore ==
    [][(/\ last'.op = "prioritize_task"
        /\ \/ last'.args.ai.mode = "unavailable"
           \/ Find(_load(file), last'.args.task_id) = 0
           \/ last'.args.ai.mode = "error") =>
          /\ last'.ret = None
          /\ file' = file]_vars

\* the adapter raised on a record that is in the store with priority 5:
\* None was returned without a call to _save
C27_Witness ==
    /\ last.op = "prioritize_task"
    /\ last.args.ai = Failing
    /\ Find(Stored, last.args.task_id) = 2
    /\ last.ret = None
    /\ ~last.saved
    /\ Stored[2].priority = 5

\* the lines of the answer that start with "Priority:"
PriorityLines(content) ==
    SelectSeq(split(strip(content), "\n"),
              LAMBDA line : startswith(line, PriorityTag))

\* the priority an answer stands for: the number between the first and the
\* second colon of its last priority line when that is an integer from 1
\* to 5, and 3 in every other case
AnsweredPriority(content) ==
    LET lines == PriorityLines(content)
        n == int(split(lines[Len(lines)], ":")[2])
    IN  IF lines # <<>> /\ n.ok /\ n.val \in 1..5 THEN n.val ELSE 3

\* C28: when the adapter answers for a stored record, prioritize_task
\* returns an integer from 1 to 5, the priority of the answer when that is
\* in range and 3 otherwise; afterwards the store is what it was with that
\* record's priority set to the value returned.
C28_AnswerStoredAndReturned ==
    [][(/\ last'.op = "prioritize_task"
        /\ last'.args.ai.mode = "ok"
        /\ Find(_load(file), last'.args.task_id) # 0) =>
          /\ last'.ret \in 1..5
          /\ last'.ret = AnsweredPriority(last'.args.ai.content)
          /\ _load(file') =
                 [_load(file) EXCEPT
                     ![Find(_load(file), last'.args.task_id)].priority =
                         last'.ret]]_vars

\* the answer "  Priority: 4  " for the second of two records: 4 was
\* returned and is stored, and the first record still has priority 5
C28_Witness ==
    /\ last.op = "prioritize_task"
    /\ last.args.ai = Answer(RPadded4)
    /\ last.args.task_id = 2
    /\ Len(Stored) = 2
    /\ Stored[2].id = 2 /\ Stored[2].priority = 4
    /\ last.ret = 4
    /\ Stored[1].id = 1 /\ Stored[1].priority = 5

-----------------------------------------------------------------------------
(* Properties of delete_task, clear_tasks and add_task on the stored       *)
(* sequence (specification SpecStore)                                      *)

C22_ClearEmptiesStore ==
    [][last'.op = "clear_tasks" =>
          /\ last'.ret = Len(_load(file))
          /\ _load(file') = <<>>
          /\ Len(_load(file)) > 0 =>
                 /\ file'.exists
                 /\ file'.doc = "array"
                 /\ file'.items = <<>>]_vars

\* clear_tasks has removed two records
C22_Witness ==
    /\ last.op = "clear_tasks"
    /\ last.ret = 2
    /\ last.saved
    /\ file.exists
    /\ file.doc = "array"
    /\ Stored = <<>>

\* C24: add_task gives the new record the largest stored id plus 1, or 1
\* when nothing is stored, and the stored sequence afterwards is the one
\* before with the new record at its end.
C24_AddAppendsWithNextId ==
    [][last'.op = "add_task" =>
          LET before == _load(file)
              after == _load(file')
          IN  /\ last'.ret.id =
                     IF before = <<>> THEN 1
                     ELSE 1 + CHOOSE m \in Ids(before) :
                                  \A n \in Ids(before) : n <= m
              /\ Len(after) = Len(before) + 1
              /\ after[Len(after)] = last'.ret
              /\ \A i \in 1..Len(before) : after[i] = before[i]]_vars

\* a record with id 3 was added behind the completed record with id 2,
\* the record with id 1 having been deleted
C24_Witness ==
    /\ last.op = "add_task"
    /\ last.ret.id = 3
    /\ Len(Stored) = 2
    /\ Stored[1].id = 2
    /\ Stored[1].status = Complete
    /\ Stored[1].title # Stored[2].title
    /\ Stored[2] = last.ret

-----------------------------------------------------------------------------
(* Properties of add_task after clear_tasks (specification SpecClear) *)

\* C23: once clear_tasks has emptied the store, add_task returns id 1 and
\* stores that record alone, whatever ids were returned before.
C23_AddAfterClearGetsId1 ==
    [][(/\ last'.op = "add_task"
        /\ issued # {}
        /\ _load(file) = <<>>) =>
          /\ last'.ret.id = 1
          /\ _load(file') = <<last'.ret>>]_vars

\* ids 1 and 2 had been returned, the store was cleared, and add_task has
\* returned id 1 again
C23_Witness ==
    /\ last.op = "add_task"
    /\ last.found = "array"
    /\ issued = {1, 2}
    /\ last.ret.id = 1
    /\ Stored = <<last.ret>>

-----------------------------------------------------------------------------
(* Properties of add_task with a summary (specification SpecSum) *)

\* C26: add_task with summarize requested raises nothing, calls _save and
\* stores the record it returns as the last one; the summary is the
\* unavailability placeholder when the adapter is unavailable, whatever the
\* client would have answered, and "(Summary error: <exception>)" when the
\* call to the client raises.
C26_SummaryNeverAborts ==
    (last.op = "add_task" /\ last.args.summarize) =>
        /\ last.exc = ""
        /\ last.saved /\ ~last.failed
        /\ Stored # <<>>
        /\ Stored[Len(Stored)] = last.ret
        /\ last.args.ai.mode = "unavailable" =>
               last.ret.summary = SummaryUnavailable
        /\ last.args.ai.mode = "error" =>
               last.ret.summary =
                   SummaryErrorPrefix \o last.args.ai.content \o <<")">>

\* a task whose summary is the unavailability placeholder is stored, and
\* add_task has just stored a second one with the placeholder of a
\* RuntimeError
C26_Witness ==
    /\ last.op = "add_task"
    /\ last.args.summarize
    /\ last.args.ai = Failing
    /\ Len(Stored) = 2
    /\ Stored[1].summary = SummaryUnavailable
    /\ Stored[2] = last.ret
    /\ Stored[2].summary = <<"(", "S", "u", "m", "m", "a", "r", "y", " ", "e", "r", "r", "o", "r", ":", " ", "R", "u", "n", "t", "i", "m", "e", "E", "r", "r", "o", "r", ")">>

-----------------------------------------------------------------------------
(* Properties of the operations that change a record (specification        *)
(* SpecKeep)                                                               *)

\* C29: after edit_task, complete_task, set_priority or prioritize_task the
\* store holds as many records as before, and each has the id and the
\* created_at it had before the call.
C29_IdAndCreatedAtKept ==
    [][last'.op \in {"edit_task", "complete_task", "set_priority",
                     "prioritize_task"} =>
          /\ Len(_load(file')) = Len(_load(file))
          /\ \A i \in 1..Len(_load(file)) :
                 /\ _load(file')[i].id = _load(file)[i].id
                 /\ _load(file')[i].created_at = _load(file)[i].created_at]_vars

\* the second record has been completed, given priority 2 and, last, a new
\* title: it still has id 2 and the time of the second day, and the first
\* record id 1 and the time of the first day
C29_Witness ==
    /\ last.op = "edit_task"
    /\ last.args.task_id = 2
    /\ last.ret = TRUE
    /\ Len(Stored) = 2
    /\ Stored[1].id = 1 /\ Stored[1].created_at = KeepClock(1)
    /\ Stored[2].id = 2 /\ Stored[2].created_at = KeepClock(2)
    /\ Stored[2].title = Tb
    /\ Stored[2].status = Complete
    /\ Stored[2].priority = 2

-----------------------------------------------------------------------------
(* Properties of the queries (specification SpecQuery) *)

\* C30: list_tasks, search_tasks and get_overview leave the store file as
\* it was, for every filter and sort mode: what they return is never saved.
C30_QueriesDoNotWrite ==
    [][last'.op \in {"list_tasks", "search_tasks", "get_overview"} =>
          file' = file]_vars

\* list_tasks sorted by priority has returned the two stored records with
\* the second one first, and the store still has them in the order in
\* which they were added
C30_Witness ==
    /\ last.op = "list_tasks"
    /\ last.args.filter_mode = "all"
    /\ last.args.sort_mode = "priority"
    /\ Len(Stored) = 2
    /\ Stored[1].id = 1 /\ Stored[2].id = 2
    /\ last.ret = <<Stored[2], Stored[1]>>

\* C38: for the stored collection, on any day, the counts of get_overview
\* satisfy 0 <= overdue <= incomplete <= total and 0 <= high_priority <=
\* incomplete; in either sort mode no record is returned by list_tasks both
\* for the filter "pending" and for the filter "completed", and every record
\* returned for the filter "all" is returned for one of them.
C38_CountsAndFiltersConsistent ==
    /\ \A today \in {<<2024, 1, 5>>, <<2024, 1, 11>>} :
           LET o == GetOverview(Stored, today)
           IN  /\ 0 <= o.overdue
               /\ o.overdue <= o.incomplete
               /\ o.incomplete <= o.total
               /\ 0 <= o.high_priority
               /\ o.high_priority <= o.incomplete
    /\ \A sort_mode \in SortModes :
           LET all == ListTasks(Stored, "all", sort_mode)
               pending == ListTasks(Stored, "pending", sort_mode)
               completed == ListTasks(Stored, "completed", sort_mode)
           IN  /\ \A i \in 1..Len(pending), j \in 1..Len(completed) :
                      pending[i] # completed[j]
               /\ \A k \in 1..Len(all) :
                      \/ \E i \in 1..Len(pending) : pending[i] = all[k]
                      \/ \E j \in 1..Len(completed) : completed[j] = all[k]

\* get_overview on 11 January with an urgent task due the day before
\* pending and another one complete: total 2, incomplete 1, high_priority
\* 1, overdue 1
C38_Witness ==
    /\ last.op = "get_overview"
    /\ Len(Stored) = 2
    /\ Stored[1].status = Complete /\ Stored[1].priority = 1
    /\ Stored[2].status = Pending /\ Stored[2].due_date = D0110
    /\ last.ret = [total |-> 2, incomplete |-> 1, high_priority |-> 1,
                   overdue |-> 1]
    /\ ListTasks(Stored, "pending", "due") = <<Stored[2]>>
    /\ ListTasks(Stored, "completed", "due") = <<Stored[1]>>

-----------------------------------------------------------------------------
(* Properties of suggest_tasks (specification SpecSuggest) *)

\* C32: suggest_tasks returns at least one entry and does not call _save;
\* when the adapter is unavailable it returns the unavailability
\* placeholder alone, whatever the client would have answered.
C32_SuggestNeverEmpty ==
    last.op = "suggest_tasks" =>
        /\ Len(last.ret) >= 1
        /\ ~last.saved
        /\ last.exc = ""
        /\ last.args.ai.mode = "unavailable" =>
               last.ret = <<SuggestUnavailable>>

\* suggest_tasks without a key on a store of two tasks: one entry, the
\* placeholder, and _save was not called
C32_Witness ==
    /\ last.op = "suggest_tasks"
    /\ last.args.ai.mode = "unavailable"
    /\ Len(Stored) = 2
    /\ Len(last.ret) = 1
    /\ last.ret[1] = SuggestUnavailable
    /\ ~last.saved

-----------------------------------------------------------------------------
(* Properties of complete_task on records that differ (specification      *)
(* SpecKeep)                                                               *)

\* C34: complete_task on the id of a stored record leaves the store as it
\* was except for the status of that record, which is complete: the other
\* fields, the other records and the order are the same.
C34_CompleteChangesStatusOnly ==
    [][(/\ last'.op = "complete_task"
        /\ Find(_load(file), last'.args.task_id) # 0) =>
          _load(file') =
              [_load(file) EXCEPT
                  ![Find(_load(file), last'.args.task_id)].status =
                      Complete]]_vars

\* the first of two records, which had been given a new title and priority
\* 2, was completed: it kept them, and the second record is still pending
C34_Witness ==
    /\ last.op = "complete_task"
    /\ last.args.task_id = 1
    /\ last.ret = TRUE
    /\ Len(Stored) = 2
    /\ Stored[1].id = 1 /\ Stored[1].status = Complete
    /\ Stored[1].title = Tb /\ Stored[1].priority = 2
    /\ Stored[1].created_at = KeepClock(1)
    /\ Stored[2].id = 2 /\ Stored[2].status = Pending

====
